---- MODULE Spec2Model ----
(***************************************************************************)
(* Model of tictactoe.py: the Tic-Tac-Toe Environment (reset, check_win,   *)
(* step, random_step, play_against_random), the evaluation loop rate and   *)
(* the return computation compute_returns.                                 *)
(***************************************************************************)
EXTENDS Integers, Sequences, FiniteSets, TLC

VARIABLES
    grid,       \* Environment.grid: cell 0..8 -> 0 (empty), 1, 2
    turn,       \* Environment.turn: 1 or 2
    done,       \* Environment.done
    op,         \* the operation that ran last
    arg,        \* the action of that operation, when it was a direct step call
    status,     \* the status that operation returned ("none": nothing returned)
    s1,         \* play_against_random: status of the caller's own step
    s2,         \* play_against_random: status of the opponent's reply
    oppMove,    \* the cell random.choice drew, -1 when it drew none
    fault,      \* the exception that operation raised, "none" when it returned
    scriptPos,  \* how many moves of Script the direct step calls since reset matched
    pc,         \* rate: where the call stands
    session,    \* rate: the loop variable of "for session in range(...)"
    win,        \* rate: tally of episodes won
    lose,       \* rate: tally of episodes lost
    tie,        \* rate: tally of episodes tied
    invalid,    \* rate: tally of invalid moves
    rstatus,    \* rate: its local status
    rdone,      \* rate: its local done
    nReset,     \* history: env.reset() calls made by rate
    nInvReturned, \* history: play_against_random calls of rate that returned INVALID_MOVE
    nFinal,     \* history: per status, the episodes of rate whose last call returned it
    nPlayed,    \* history: calls of this episode of rate that did not return INVALID_MOVE
    params,     \* the policy's parameters, as the number of updates applied to them
    optSteps,   \* the optimizer steps taken
    rewards,    \* compute_returns: its argument rewards, a list of Python numbers
    gamma,      \* compute_returns: its argument gamma
    G,          \* compute_returns: the list it returned
    rpc,        \* compute_returns: "called" or "returned" ("idle": not in use)
    tpc,        \* train: where the call stands
    i_episode,  \* train: the loop variable of "for i_episode in range(...)"
    saved_rewards,  \* train: the rewards of the episode, a list of Python ints
    saved_logprobs, \* train: the log-probabilities of the episode's actions
    tstatus,    \* train: its local status
    tdone,      \* train: its local done
    running_reward, \* train: the accumulator of the episodes' returns
    avg_return, \* train: what the step just taken appended to y_avg_returns, as a
                \* list (empty when it appended nothing)
    grads,      \* the backward passes summed in the parameters' .grad
    usedGrads,  \* the value of grads the last optimizer step consumed
    schedSteps, \* the scheduler steps taken
    nCalls,     \* history: play_against_random calls train made in this episode
    strayed,    \* train: the policy has sampled an occupied cell during this call
    sinceSum,   \* history: sum of the rewards of the episodes since the last record
    sinceN,     \* history: number of episodes finished since the last record
    twin        \* two runs of rate on the same random draws: <<>>, or the pair
                \* of the runs' environments and locals

envVars == <<grid, turn, done>>
obsVars == <<op, arg, status, s1, s2, oppMove, fault, scriptPos>>
rateVars == <<pc, session, win, lose, tie, invalid, rstatus, rdone,
              nReset, nInvReturned, nFinal, nPlayed>>
policyVars == <<params, optSteps>>
retVars == <<rewards, gamma, G, rpc>>
trainVars == <<tpc, i_episode, saved_rewards, saved_logprobs, tstatus, tdone,
               running_reward, avg_return, grads, usedGrads, schedSteps,
               nCalls, strayed, sinceSum, sinceN>>
vars == <<grid, turn, done, op, arg, status, s1, s2, oppMove, fault, scriptPos,
          pc, session, win, lose, tie, invalid, rstatus, rdone,
          nReset, nInvReturned, nFinal, nPlayed, params, optSteps,
          rewards, gamma, G, rpc,
          tpc, i_episode, saved_rewards, saved_logprobs, tstatus, tdone,
          running_reward, avg_return, grads, usedGrads, schedSteps,
          nCalls, strayed, sinceSum, sinceN, twin>>

----------------------------------------------------------------------------
(* Constants of class Environment *)

Cells == 0..8

win_set == { <<0, 1, 2>>, <<3, 4, 5>>, <<6, 7, 8>>,
             <<0, 3, 6>>, <<1, 4, 7>>, <<2, 5, 8>>,
             <<0, 4, 8>>, <<2, 4, 6>> }

STATUS_VALID_MOVE == "valid"
STATUS_INVALID_MOVE == "inv"
STATUS_WIN == "win"
STATUS_TIE == "tie"
STATUS_LOSE == "lose"
STATUS_DONE == "done"

\* Python values a caller can hand to step: the type tag is what type(action) sees
IntAction(n) == [type |-> "int", val |-> n]
ValidActions == { IntAction(n) : n \in Cells }
BadActions == { IntAction(-1), IntAction(9),
                [type |-> "float", val |-> 4], [type |-> "bool", val |-> 1] }
ActionInputs == ValidActions \cup BadActions
NoAction == [type |-> "none", val |-> -1]

\* everything a status variable can hold; "none" when nothing was returned
Statuses == {STATUS_VALID_MOVE, STATUS_INVALID_MOVE, STATUS_WIN, STATUS_TIE,
             STATUS_LOSE, STATUS_DONE, "none"}

----------------------------------------------------------------------------
(* Environment *)

EmptyGrid == [c \in Cells |-> 0]

\* reset(): the state of a fresh episode
reset_env == [grid |-> EmptyGrid, turn |-> 1, done |-> FALSE]

\* check_win without the test that the triple is non-empty
check_win_no_empty_test(g) ==
    \E pos \in win_set :
        LET s == { g[pos[i]] : i \in 1..3 }
        IN  Cardinality(s) = 1

\* check_win(): some triple of win_set whose cells form a one-element set without 0
check_win(g) ==
    \E pos \in win_set :
        LET s == { g[pos[i]] : i \in 1..3 }
        IN  Cardinality(s) = 1 /\ 0 \notin s

\* the tie test of step: all([p != 0 for p in self.grid])
all_occupied(g) == \A c \in Cells : g[c] # 0

\* a turn flip that leaves the turn where it was
next_turn_stuck(t) == IF t = 1 THEN 1 ELSE 2

\* the turn flip of step
next_turn(t) == IF t = 1 THEN 2 ELSE 1

\* the assertion without its type test
assert_ok_untyped(a) == a.val >= 0 /\ a.val < 9

\* the assertion opening step
assert_ok(a) == a.type = "int" /\ a.val >= 0 /\ a.val < 9

\* what a call returns: the environment it leaves, the status, the exception
Returned(g, t, d, st) ==
    [grid |-> g, turn |-> t, done |-> d, status |-> st, fault |-> "none"]
Raised(e, exc) ==
    [grid |-> e.grid, turn |-> e.turn, done |-> e.done, status |-> "none", fault |-> exc]
EnvOf(r) == [grid |-> r.grid, turn |-> r.turn, done |-> r.done]

\* play_move with the tie check ahead of the win check
play_move_tie_first(e, c) ==
    LET g == [e.grid EXCEPT ![c] = e.turn]
        t == next_turn(e.turn)
    IN  IF all_occupied(g) THEN Returned(g, t, TRUE, STATUS_TIE)
        ELSE IF check_win(g) THEN Returned(g, t, TRUE, STATUS_WIN)
        ELSE Returned(g, t, e.done, STATUS_VALID_MOVE)

\* play_move that leaves done as it was when the board fills up
play_move_tie_open(e, c) ==
    LET g == [e.grid EXCEPT ![c] = e.turn]
        t == next_turn(e.turn)
    IN  IF check_win(g) THEN Returned(g, t, TRUE, STATUS_WIN)
        ELSE IF all_occupied(g) THEN Returned(g, t, e.done, STATUS_TIE)
        ELSE Returned(g, t, e.done, STATUS_VALID_MOVE)

\* step, from "# play move" on: mark, flip the turn, check win, then check tie
play_move(e, c) ==
    LET g == [e.grid EXCEPT ![c] = e.turn]
        t == next_turn(e.turn)
    IN  IF check_win(g) THEN Returned(g, t, TRUE, STATUS_WIN)
        ELSE IF all_occupied(g) THEN Returned(g, t, TRUE, STATUS_TIE)
        ELSE Returned(g, t, e.done, STATUS_VALID_MOVE)

\* step with the occupied-cell check ahead of the done check
step_occupied_first(e, a) ==
    IF ~assert_ok(a) THEN Raised(e, "AssertionError")
    ELSE IF e.grid[a.val] # 0 THEN Returned(e.grid, e.turn, e.done, STATUS_INVALID_MOVE)
    ELSE IF e.done THEN Returned(e.grid, e.turn, e.done, STATUS_DONE)
    ELSE play_move(e, a.val)

\* step that passes the turn on an invalid move
step_invalid_flips(e, a) ==
    IF ~assert_ok(a) THEN Raised(e, "AssertionError")
    ELSE IF e.done THEN Returned(e.grid, e.turn, e.done, STATUS_DONE)
    ELSE IF e.grid[a.val] # 0
         THEN Returned(e.grid, next_turn(e.turn), e.done, STATUS_INVALID_MOVE)
    ELSE play_move(e, a.val)

\* step without the occupied-cell check
step_overwrites(e, a) ==
    IF ~assert_ok(a) THEN Raised(e, "AssertionError")
    ELSE IF e.done THEN Returned(e.grid, e.turn, e.done, STATUS_DONE)
    ELSE play_move(e, a.val)

\* step(action)
step(e, a) ==
    IF ~assert_ok(a) THEN Raised(e, "AssertionError")
    ELSE IF e.done THEN Returned(e.grid, e.turn, e.done, STATUS_DONE)
    ELSE IF e.grid[a.val] # 0 THEN Returned(e.grid, e.turn, e.done, STATUS_INVALID_MOVE)
    ELSE play_move(e, a.val)

\* random_step(): the list random.choice draws from
empty_cells(g) == { i \in Cells : g[i] = 0 }

\* random_step() when random.choice drew move (-1: the list was empty)
random_step(e, move) ==
    IF move = -1 THEN Raised(e, "IndexError")
    ELSE step(e, IntAction(move))

\* draws over every cell, occupied or not
RandomDraws_any_cell(g) == Cells

\* the draws random.choice can make on grid g
RandomDraws(g) == IF empty_cells(g) = {} THEN {-1} ELSE empty_cells(g)

\* no reply at all
opponent_replies_never(r) == FALSE

\* a reply test that forgets whose turn it is
opponent_replies_any_turn(r) == ~r.done

\* a reply test that waits for the wrong player's turn
opponent_replies_on_turn_1(r) == ~r.done /\ r.turn = 1

\* whether play_against_random lets the opponent reply after the caller's step
opponent_replies(r) == ~r.done /\ r.turn = 2

\* a report that forgets the reply: always the status of the caller's own step
remap_forgets_reply(first, reply) ==
    IF reply.fault # "none" THEN reply
    ELSE [reply EXCEPT !.status = first.status]

\* the status play_against_random reports once the opponent has replied:
\* a reply that ended the game is a loss or a tie, anything else raises
remap(first, reply) ==
    IF reply.fault # "none" THEN reply
    ELSE IF reply.done
         THEN IF reply.status = STATUS_WIN
                 THEN [reply EXCEPT !.status = STATUS_LOSE]
              ELSE IF reply.status = STATUS_TIE
                 THEN [reply EXCEPT !.status = STATUS_TIE]
              ELSE [reply EXCEPT !.status = "none", !.fault = "ValueError"]
    ELSE [reply EXCEPT !.status = first.status]

\* a result of play_against_random, with the statuses of the two step calls
Outcome(r, st1, st2) ==
    [grid |-> r.grid, turn |-> r.turn, done |-> r.done, status |-> r.status,
     fault |-> r.fault, s1 |-> st1, s2 |-> st2]

\* play_against_random(action), given its own step's result first and the
\* cell move that random.choice draws if the opponent replies
play_against_random(first, move) ==
    IF first.fault # "none" THEN Outcome(first, "none", "none")
    ELSE IF opponent_replies(first)
         THEN LET reply == random_step(EnvOf(first), move)
              IN  Outcome(remap(first, reply), first.status, reply.status)
    ELSE Outcome(first, first.status, "none")

\* the draws open to play_against_random once its own step returned first:
\* -1 when there is no reply
ReplyDraws(first) ==
    IF first.fault = "none" /\ opponent_replies(first)
       THEN RandomDraws(first.grid)
    ELSE {-1}

----------------------------------------------------------------------------
(* Python numbers: int, and float as an IEEE 754 double.                   *)
(* A natural number is a sequence of limbs (digits in base Base), lowest   *)
(* first, without high zero limbs, so that no intermediate value needs     *)
(* more than 31 bits. A float is a sign, a significand of at most          *)
(* MantissaBits bits without low zero bits (empty for 0.0) and the power   *)
(* of two that scales it. The exponent range is not limited: the returns   *)
(* stay far from overflow and from subnormals.                             *)

MantissaBits == 53

LimbBits == 15
Base == 2 ^ LimbBits

RECURSIVE NatLimbs(_)
NatLimbs(n) == IF n = 0 THEN <<>> ELSE <<n % Base>> \o NatLimbs(n \div Base)

RECURSIVE Trim(_)
Trim(m) ==
    IF m = <<>> THEN <<>>
    ELSE IF m[Len(m)] = 0 THEN Trim(SubSeq(m, 1, Len(m) - 1))
    ELSE m

Rest(m) == IF m = <<>> THEN <<>> ELSE Tail(m)
Low(m) == IF m = <<>> THEN 0 ELSE Head(m)
Limb(m, j) == IF j \in 1..Len(m) THEN m[j] ELSE 0

RECURSIVE NatAddC(_, _, _)
NatAddC(a, b, c) ==
    IF a = <<>> /\ b = <<>> THEN (IF c = 0 THEN <<>> ELSE <<c>>)
    ELSE LET t == Low(a) + Low(b) + c
         IN  <<t % Base>> \o NatAddC(Rest(a), Rest(b), t \div Base)

NatAdd(a, b) == NatAddC(a, b, 0)

\* a - b - c for a >= b + c, before trimming
RECURSIVE NatSubB(_, _, _)
NatSubB(a, b, c) ==
    IF a = <<>> THEN <<>>
    ELSE LET t == Low(a) - Low(b) - c
         IN  <<(t + Base) % Base>> \o NatSubB(Rest(a), Rest(b), IF t < 0 THEN 1 ELSE 0)

NatSub(a, b) == Trim(NatSubB(a, b, 0))

\* a < b
RECURSIVE NatLess(_, _)
NatLess(a, b) ==
    IF Len(a) # Len(b) THEN Len(a) < Len(b)
    ELSE IF a = <<>> THEN FALSE
    ELSE IF a[Len(a)] # b[Len(b)] THEN a[Len(a)] < b[Len(b)]
    ELSE NatLess(Trim(SubSeq(a, 1, Len(a) - 1)), Trim(SubSeq(b, 1, Len(b) - 1)))

\* a * d + c for one limb d
RECURSIVE NatMulLimb(_, _, _)
NatMulLimb(a, d, c) ==
    IF a = <<>> THEN (IF c = 0 THEN <<>> ELSE <<c>>)
    ELSE LET t == Head(a) * d + c
         IN  <<t % Base>> \o NatMulLimb(Tail(a), d, t \div Base)

RECURSIVE NatMul(_, _)
NatMul(a, b) ==
    IF a = <<>> \/ b = <<>> THEN <<>>
    ELSE LET rest == NatMul(Tail(a), b)
             high == IF rest = <<>> THEN <<>> ELSE <<0>> \o rest
         IN  NatAdd(Trim(NatMulLimb(b, Head(a), 0)), high)

\* the number of bits of m, and its bit i (bit 0 is the lowest)
LimbLen(x) == Cardinality({ i \in 0..(LimbBits - 1) : 2 ^ i <= x })
BitLen(m) == IF m = <<>> THEN 0 ELSE LimbBits * (Len(m) - 1) + LimbLen(m[Len(m)])
Bit(m, i) == (Limb(m, (i \div LimbBits) + 1) \div (2 ^ (i % LimbBits))) % 2

\* m * 2^n and m \div 2^n
ShiftLeft(m, n) ==
    LET t == n % LimbBits
        w == [j \in 1..(Len(m) + 1) |->
                 ((Limb(m, j) * (2 ^ t)) % Base) + (Limb(m, j - 1) \div (2 ^ (LimbBits - t)))]
    IN  IF m = <<>> \/ n = 0 THEN m
        ELSE [j \in 1..(n \div LimbBits) |-> 0] \o Trim(w)

ShiftRight(m, n) ==
    LET d == n \div LimbBits
        t == n % LimbBits
        w == [j \in 1..(Len(m) - d) |->
                 (Limb(m, j + d) \div (2 ^ t))
                     + ((Limb(m, j + d + 1) % (2 ^ t)) * (2 ^ (LimbBits - t)))]
    IN  IF d >= Len(m) THEN <<>> ELSE Trim(w)

FloatZero == [neg |-> FALSE, man |-> <<>>, exp |-> 0]

\* a float in its one form: the significand has no low zero bit
Canon(neg, m, e) ==
    LET z == Cardinality({ j \in 1..Len(m) : \A i \in 1..j : m[i] = 0 })
        t == Cardinality({ i \in 1..(LimbBits - 1) : m[z + 1] % (2 ^ i) = 0 })
    IN  IF m[1] % 2 = 1 THEN [neg |-> neg, man |-> m, exp |-> e]
        ELSE [neg |-> neg, man |-> ShiftRight(m, z * LimbBits + t),
              exp |-> e + z * LimbBits + t]

\* the double nearest to (-1)^neg * m * 2^e, ties to the even significand
RoundToFloat(neg, m, e) ==
    LET k == BitLen(m) - MantissaBits
    IN  IF m = <<>> THEN FloatZero
        ELSE IF k <= 0 THEN Canon(neg, m, e)
        ELSE LET q == ShiftRight(m, k)
                 half == Bit(m, k - 1) = 1
                 sticky == \E i \in 0..(k - 2) : Bit(m, i) = 1
                 up == half /\ (sticky \/ Bit(q, 0) = 1)
             IN  Canon(neg, IF up THEN NatAdd(q, <<1>>) ELSE q, e + k)

\* float(n) for a Python int n
IntToFloat(n) == RoundToFloat(n < 0, NatLimbs(IF n < 0 THEN 0 - n ELSE n), 0)

\* x * y on doubles
FMul(x, y) ==
    RoundToFloat(x.neg # y.neg, NatMul(x.man, y.man), x.exp + y.exp)

\* x + y on doubles
FAdd(x, y) ==
    IF x.man = <<>> THEN y
    ELSE IF y.man = <<>> THEN x
    ELSE LET e == IF x.exp < y.exp THEN x.exp ELSE y.exp
             a == ShiftLeft(x.man, x.exp - e)
             b == ShiftLeft(y.man, y.exp - e)
         IN  IF x.neg = y.neg THEN RoundToFloat(x.neg, NatAdd(a, b), e)
             ELSE IF NatLess(a, b) THEN RoundToFloat(y.neg, NatSub(b, a), e)
             ELSE RoundToFloat(x.neg, NatSub(a, b), e)

\* a Python number: an int n or a float f
PyInt(n) == [t |-> "int", int |-> n, flt |-> FloatZero]
PyFloat(f) == [t |-> "float", int |-> 0, flt |-> f]

\* the float a mixed operation converts its operand to
AsFloat(x) == IF x.t = "int" THEN IntToFloat(x.int) ELSE x.flt

\* Python's x * y and x + y: int with int stays int, anything else is float
PyMul(x, y) ==
    IF x.t = "int" /\ y.t = "int" THEN PyInt(x.int * y.int)
    ELSE PyFloat(FMul(AsFloat(x), AsFloat(y)))

PyAdd(x, y) ==
    IF x.t = "int" /\ y.t = "int" THEN PyInt(x.int + y.int)
    ELSE PyFloat(FAdd(AsFloat(x), AsFloat(y)))

\* a \div d and a % d for one limb d > 0
RECURSIVE NatDivLimb(_, _)
NatDivLimb(a, d) ==
    IF a = <<>> THEN [q |-> <<>>, r |-> 0]
    ELSE LET high == NatDivLimb(Tail(a), d)
             cur == high.r * Base + Head(a)
         IN  [q |-> <<cur \div d>> \o high.q, r |-> cur % d]

\* x / d on doubles for a divisor d that is a whole number, 0 < |d| < Base:
\* the quotient of the significand scaled by five limbs, which has more than
\* MantissaBits + 2 bits, with one more low bit that is 1 when the division
\* left a remainder, then rounded once
FDivInt(x, d) ==
    LET dv == NatDivLimb(ShiftLeft(x.man, 5 * LimbBits), IF d < 0 THEN 0 - d ELSE d)
        q == NatMulLimb(Trim(dv.q), 2, IF dv.r # 0 THEN 1 ELSE 0)
    IN  RoundToFloat(x.neg # (d < 0), q, x.exp - 5 * LimbBits - 1)

\* Python's x / y for an int y: train divides a float, so the division is the
\* true division in Python 2 and 3 alike
PyDiv(x, y) == PyFloat(FDivInt(AsFloat(x), y.int))

\* Python's x == y on numbers
PyEq(x, y) == AsFloat(x) = AsFloat(y)

\* the double with significand h (hexadecimal digits, highest first) scaled
\* by 2^e: float.fromhex("0x1.ccccccccccccdp-1") is
\* Hex(FALSE, <<1, 12, ..., 12, 13>>, -1 - 52)
RECURSIVE HexNat(_)
HexNat(h) ==
    IF h = <<>> THEN <<>>
    ELSE NatMulLimb(HexNat(SubSeq(h, 1, Len(h) - 1)), 16, h[Len(h)])

Hex(neg, h, e) == RoundToFloat(neg, HexNat(h), e)

\* float literals of the source and of its doctests, as float.hex() gives them
F1_0 == IntToFloat(1)
\* 0.9 = 0x1.ccccccccccccdp-1
F0_9 == Hex(FALSE, <<1, 12, 12, 12, 12, 12, 12, 12, 12, 12, 12, 12, 12, 13>>, -53)
\* 0.75 = 0x1.8p-1
F0_75 == Hex(FALSE, <<3>>, -2)
\* -0.5 = -0x1.0p-1
FNeg0_5 == Hex(TRUE, <<1>>, -1)
\* 0.81 = 0x1.9eb851eb851ecp-1
F0_81 == Hex(FALSE, <<1, 9, 14, 11, 8, 5, 1, 14, 11, 8, 5, 1, 14, 12>>, -53)
\* 0.7290000000000001 = 0x1.753f7ced91688p-1
F0_7290000000000001 ==
    Hex(FALSE, <<1, 7, 5, 3, 15, 7, 12, 14, 13, 9, 1, 6, 8, 8>>, -53)

----------------------------------------------------------------------------
(* compute_returns(rewards, gamma) *)

\* the longest reward list tried
MaxLen == 4

RewardInputs == { PyInt(0), PyInt(1), PyFloat(FNeg0_5) }
GammaInputs == { PyFloat(F1_0), PyFloat(F0_9), PyFloat(F0_75) }
RewardLists == UNION { [1..n -> RewardInputs] : n \in 0..MaxLen }

\* an entry that adds the next return without discounting it
returns_entry_undiscounted(r, g, acc, i) ==
    IF i = Len(r) THEN PyMul(r[i], PyFloat(F1_0))
    ELSE PyAdd(r[i], acc[i + 1])

\* the value the loop body assigns to G[i] (i counts from 1 here)
returns_entry(r, g, acc, i) ==
    IF i = Len(r) THEN PyMul(r[i], PyFloat(F1_0))
    ELSE PyAdd(r[i], PyMul(g, acc[i + 1]))

\* "for i in reversed(range(len(rewards)))", from entry i down to the first
RECURSIVE returns_loop(_, _, _, _)
returns_loop(r, g, acc, i) ==
    IF i = 0 THEN acc
    ELSE returns_loop(r, g, [acc EXCEPT ![i] = returns_entry(r, g, acc, i)], i - 1)

\* compute_returns: G = [0] * len(rewards), then the backward loop
compute_returns(r, g) ==
    returns_loop(r, g, [i \in 1..Len(r) |-> PyInt(0)], Len(r))

----------------------------------------------------------------------------
(* The scenario of the end-to-end test: moves 0, 1, 3, 4, 6 from reset *)

Script == <<0, 1, 3, 4, 6>>

\* position in Script after a direct step(a); -1 once the calls have left it
script_after(pos, a) ==
    IF pos >= 0 /\ pos < Len(Script) /\ a = IntAction(Script[pos + 1])
       THEN pos + 1
    ELSE -1

----------------------------------------------------------------------------
(* Actions on the environment *)

Env == [grid |-> grid, turn |-> turn, done |-> done]

SetEnv(r) ==
    /\ grid' = r.grid
    /\ turn' = r.turn
    /\ done' = r.done

InitEnv ==
    /\ grid = reset_env.grid
    /\ turn = reset_env.turn
    /\ done = reset_env.done
    /\ op = "reset"
    /\ arg = NoAction
    /\ status = "none"
    /\ s1 = "none"
    /\ s2 = "none"
    /\ oppMove = -1
    /\ fault = "none"
    /\ scriptPos = 0

\* nothing of rate has run
InitRateVars ==
    /\ pc = "idle"
    /\ session = 0
    /\ win = 0 /\ lose = 0 /\ tie = 0 /\ invalid = 0
    /\ rstatus = "none"
    /\ rdone = FALSE
    /\ nReset = 0
    /\ nInvReturned = 0
    /\ nFinal = [st \in Statuses |-> 0]
    /\ nPlayed = 0

InitPolicy ==
    /\ params = 0
    /\ optSteps = 0

\* compute_returns is not in use
InitNoReturns ==
    /\ rewards = <<>>
    /\ gamma = PyFloat(F1_0)
    /\ G = <<>>
    /\ rpc = "idle"

\* train has not been called
InitTrainVars ==
    /\ tpc = "idle"
    /\ i_episode = 0
    /\ saved_rewards = <<>>
    /\ saved_logprobs = <<>>
    /\ tstatus = "none"
    /\ tdone = FALSE
    /\ running_reward = PyInt(0)
    /\ avg_return = <<>>
    /\ grads = 0
    /\ usedGrads = 0
    /\ schedSteps = 0
    /\ nCalls = 0
    /\ strayed = FALSE
    /\ sinceSum = 0
    /\ sinceN = 0

InitTwin == twin = <<>>

Init ==
    /\ InitEnv /\ InitRateVars /\ InitPolicy /\ InitNoReturns /\ InitTrainVars
    /\ InitTwin

Reset ==
    /\ SetEnv(reset_env)
    /\ op' = "reset"
    /\ arg' = NoAction
    /\ status' = "none"
    /\ s1' = "none"
    /\ s2' = "none"
    /\ oppMove' = -1
    /\ fault' = "none"
    /\ scriptPos' = 0
    /\ UNCHANGED <<rateVars, policyVars, retVars, trainVars, twin>>

Step(a) ==
    \E r \in {step(Env, a)} :
        /\ SetEnv(r)
        /\ op' = "step"
        /\ arg' = a
        /\ status' = r.status
        /\ s1' = "none"
        /\ s2' = "none"
        /\ oppMove' = -1
        /\ fault' = r.fault
        /\ scriptPos' = script_after(scriptPos, a)
        /\ UNCHANGED <<rateVars, policyVars, retVars, trainVars, twin>>

RandomStep ==
    \E move \in RandomDraws(grid) :
        \E r \in {random_step(Env, move)} :
            /\ SetEnv(r)
            /\ op' = "random_step"
            /\ arg' = NoAction
            /\ status' = r.status
            /\ s1' = "none"
            /\ s2' = "none"
            /\ oppMove' = move
            /\ fault' = r.fault
            /\ scriptPos' = -1
            /\ UNCHANGED <<rateVars, policyVars, retVars, trainVars, twin>>

PlayAgainstRandom(a) ==
    \E first \in {step(Env, a)} :
    \E move \in ReplyDraws(first) :
    \E r \in {play_against_random(first, move)} :
        /\ SetEnv(r)
        /\ op' = "play_against_random"
        /\ arg' = NoAction
        /\ status' = r.status
        /\ s1' = r.s1
        /\ s2' = r.s2
        /\ oppMove' = move
        /\ fault' = r.fault
        /\ scriptPos' = -1
        /\ UNCHANGED <<rateVars, policyVars, retVars, trainVars, twin>>

\* Every operation of Environment, called in any order
Next ==
    \/ Reset
    \/ \E a \in ActionInputs : Step(a)
    \/ RandomStep
    \/ \E a \in ActionInputs : PlayAgainstRandom(a)

Spec == Init /\ [][Next]_vars

\* An episode as train and rate drive it: reset and play_against_random only
NextEpisode ==
    \/ Reset
    \/ \E a \in ActionInputs : PlayAgainstRandom(a)

SpecEpisode == Init /\ [][NextEpisode]_vars

----------------------------------------------------------------------------
(* rate(env, policy): the evaluation loop *)

\* the loop bound of rate, range(100) in the source, scaled down
NumSessions == 2

\* the most invalid moves the policy is let to make during one call of rate
MaxInvalid == 2

\* select_action: softmax leaves every one of the nine cells a possible sample
select_action_samples == ValidActions

\* a tally that counts every status but VALID_MOVE
rate_invalid_not_valid(n, st) == IF st # "valid" THEN n + 1 ELSE n

\* "if status == 'inv': invalid += 1"
rate_invalid(n, st) == IF st = "inv" THEN n + 1 ELSE n

\* the three tests after the while loop, on the tallies t
rate_tally(t, st) ==
    [win  |-> IF st = STATUS_WIN THEN t.win + 1 ELSE t.win,
     lose |-> IF st = STATUS_LOSE THEN t.lose + 1 ELSE t.lose,
     tie  |-> IF st = STATUS_TIE THEN t.tie + 1 ELSE t.tie]

\* rate is called, by a caller that is not train: the tallies start at 0
RateCall ==
    /\ pc \in {"idle", "returned"}
    /\ tpc = "idle"
    /\ pc' = "for"
    /\ session' = 0
    /\ win' = 0 /\ lose' = 0 /\ tie' = 0 /\ invalid' = 0
    /\ nReset' = 0
    /\ nInvReturned' = 0
    /\ nFinal' = [st \in Statuses |-> 0]
    /\ UNCHANGED <<envVars, obsVars, rstatus, rdone, nPlayed,
                   policyVars, retVars, trainVars, twin>>

\* the head of the for loop with a session left: reset, done = False, status = valid
RateSession ==
    /\ pc = "for"
    /\ session < NumSessions
    /\ SetEnv(reset_env)
    /\ rdone' = FALSE
    /\ rstatus' = STATUS_VALID_MOVE
    /\ nReset' = nReset + 1
    /\ nPlayed' = 0
    /\ pc' = "while"
    /\ UNCHANGED <<obsVars, session, win, lose, tie, invalid, nInvReturned, nFinal,
                   policyVars, retVars, trainVars, twin>>

\* one pass of the while loop: sample an action, play it, count an invalid move
RatePlay ==
    /\ pc = "while"
    /\ ~rdone
    /\ \E a \in select_action_samples :
       \E first \in {step(Env, a)} :
       \E move \in ReplyDraws(first) :
       \E r \in {play_against_random(first, move)} :
          /\ r.status = STATUS_INVALID_MOVE => invalid < MaxInvalid
          /\ SetEnv(r)
          /\ IF r.fault # "none"
                THEN /\ pc' = "raised"
                     /\ UNCHANGED <<rstatus, rdone, invalid, nInvReturned, nFinal,
                                    nPlayed>>
                ELSE /\ pc' = "while"
                     /\ rstatus' = r.status
                     /\ rdone' = r.done
                     /\ invalid' = rate_invalid(invalid, r.status)
                     /\ nInvReturned' = IF r.status = STATUS_INVALID_MOVE
                                           THEN nInvReturned + 1 ELSE nInvReturned
                     /\ nFinal' = IF r.done
                                     THEN [nFinal EXCEPT ![r.status] = @ + 1]
                                  ELSE nFinal
                     /\ nPlayed' = IF r.status = STATUS_INVALID_MOVE
                                      THEN nPlayed ELSE nPlayed + 1
    /\ UNCHANGED <<obsVars, session, win, lose, tie, nReset, policyVars, retVars, trainVars,
                   twin>>

\* the while loop has ended: tally the episode's last status, next session
RateTally ==
    /\ pc = "while"
    /\ rdone
    /\ \E t \in {rate_tally([win |-> win, lose |-> lose, tie |-> tie], rstatus)} :
          /\ win' = t.win
          /\ lose' = t.lose
          /\ tie' = t.tie
    /\ session' = session + 1
    /\ pc' = "for"
    /\ UNCHANGED <<envVars, obsVars, invalid, rstatus, rdone,
                   nReset, nInvReturned, nFinal, nPlayed, policyVars, retVars, trainVars,
                   twin>>

\* the for loop is exhausted: return win, lose, tie, invalid
RateReturn ==
    /\ pc = "for"
    /\ session >= NumSessions
    /\ pc' = "returned"
    /\ UNCHANGED <<envVars, obsVars, session, win, lose, tie, invalid, rstatus, rdone,
                   nReset, nInvReturned, nFinal, nPlayed, policyVars, retVars, trainVars,
                   twin>>

NextRate ==
    \/ RateCall
    \/ RateSession
    \/ RatePlay
    \/ RateTally
    \/ RateReturn

SpecRate == Init /\ [][NextRate]_vars

----------------------------------------------------------------------------
(* train(policy, env, index, gamma, log_interval): the training loop *)

\* the loop bound of train, range(70000) in the source, scaled down
NumEpisodes == 2

\* log_interval, 1000 by default in the source, scaled down
LogInterval == 2

\* the batch size of "if i_episode % 1 == 0"
BatchSize == 1

\* the dictionary of get_reward
reward_table ==
    [valid |-> 10, inv |-> -500, win |-> 1000, tie |-> -20, lose |-> -30]

\* get_reward(status): the dictionary has no entry for DONE, which raises KeyError
get_reward_raises(st) == st \notin DOMAIN reward_table

\* a reward that is the same for every status
get_reward_flat(st) == PyInt(reward_table[STATUS_VALID_MOVE])

get_reward(st) == PyInt(reward_table[st])

\* select_action in train: the policy is let to sample an occupied cell once
\* during a call of train; from then on its samples are empty cells
train_action_samples(astray, g) ==
    IF astray THEN { IntAction(c) : c \in empty_cells(g) } ELSE select_action_samples

\* the entry select_action's log-probability makes in saved_logprobs
LogProb == "logprob"

\* loss.backward(): adds the gradient of one episode's loss to .grad
backward(g) == g + 1

\* a gradient clear that clears nothing
zero_grad_keeps(g) == g

\* optimizer.zero_grad()
zero_grad(g) == 0

\* a board as a grid, from its three rows
Board(r1, r2, r3) == [c \in Cells |-> (r1 \o r2 \o r3)[c + 1]]

\* positions rate leaves the environment in when it returns: the end of a won,
\* of a lost and of a tied episode. train reads nothing of the environment
\* before its next env.reset(), so three positions stand for all of them.
rate_leaves ==
    { [grid |-> Board(<<1, 1, 1>>, <<2, 2, 0>>, <<0, 0, 0>>), turn |-> 2, done |-> TRUE],
      [grid |-> Board(<<1, 1, 0>>, <<2, 2, 2>>, <<1, 0, 0>>), turn |-> 1, done |-> TRUE],
      [grid |-> Board(<<1, 2, 1>>, <<1, 2, 2>>, <<2, 1, 1>>), turn |-> 2, done |-> TRUE] }

\* the sum of a list of Python ints
RECURSIVE IntSum(_)
IntSum(r) == IF r = <<>> THEN 0 ELSE Head(r).int + IntSum(Tail(r))

\* train is called, before any call of rate: optimizer and scheduler are
\* created, running_reward = 0
TrainCall ==
    /\ tpc = "idle"
    /\ pc = "idle"
    /\ tpc' = "for"
    /\ i_episode' = 0
    /\ running_reward' = PyInt(0)
    /\ optSteps' = 0
    /\ schedSteps' = 0
    /\ UNCHANGED <<envVars, obsVars, rateVars, retVars, params,
                   saved_rewards, saved_logprobs, tstatus, tdone, avg_return,
                   grads, usedGrads, nCalls, strayed, sinceSum, sinceN, twin>>

\* the head of the for loop with an episode left: empty lists, reset, done = False
TrainEpisode ==
    /\ tpc = "for"
    /\ i_episode < NumEpisodes
    /\ saved_rewards' = <<>>
    /\ saved_logprobs' = <<>>
    /\ SetEnv(reset_env)
    /\ tdone' = FALSE
    /\ nCalls' = 0
    /\ tpc' = "while"
    /\ UNCHANGED <<obsVars, rateVars, policyVars, retVars, i_episode, tstatus,
                   running_reward, avg_return, grads, usedGrads, schedSteps,
                   strayed, sinceSum, sinceN, twin>>

\* one pass of the while loop: sample an action, play it, save logprob and reward
TrainPlay ==
    /\ tpc = "while"
    /\ ~tdone
    /\ \E a \in train_action_samples(strayed, grid) :
       \E first \in {step(Env, a)} :
       \E move \in ReplyDraws(first) :
       \E r \in {play_against_random(first, move)} :
          /\ SetEnv(r)
          /\ nCalls' = nCalls + 1
          /\ IF r.fault # "none"
                THEN /\ tpc' = "raised"
                     /\ UNCHANGED <<tstatus, tdone, saved_rewards, saved_logprobs,
                                    strayed>>
                ELSE /\ tstatus' = r.status
                     /\ tdone' = r.done
                     /\ strayed' = (strayed \/ r.status = STATUS_INVALID_MOVE)
                     /\ IF get_reward_raises(r.status)
                           THEN /\ tpc' = "raised"
                                /\ UNCHANGED <<saved_rewards, saved_logprobs>>
                           ELSE /\ tpc' = "while"
                                /\ saved_logprobs' = Append(saved_logprobs, LogProb)
                                /\ saved_rewards' =
                                       Append(saved_rewards, get_reward(r.status))
    /\ UNCHANGED <<obsVars, rateVars, policyVars, retVars, i_episode,
                   running_reward, avg_return, grads, usedGrads, schedSteps,
                   sinceSum, sinceN, twin>>

\* the while loop has ended: R = compute_returns(saved_rewards)[0], with the
\* default gamma = 1.0, and running_reward += R
TrainReturns ==
    /\ tpc = "while"
    /\ tdone
    /\ running_reward' =
          PyAdd(running_reward, compute_returns(saved_rewards, PyFloat(F1_0))[1])
    /\ sinceSum' = sinceSum + IntSum(saved_rewards)
    /\ sinceN' = sinceN + 1
    /\ tpc' = "finish"
    /\ UNCHANGED <<envVars, obsVars, rateVars, policyVars, retVars, i_episode,
                   saved_rewards, saved_logprobs, tstatus, tdone, avg_return,
                   grads, usedGrads, schedSteps, nCalls, strayed, twin>>

\* finish_episode(saved_rewards, saved_logprobs, gamma): the loss of the
\* episode and its backward pass
FinishEpisode ==
    /\ tpc = "finish"
    /\ grads' = backward(grads)
    /\ tpc' = "log"
    /\ UNCHANGED <<envVars, obsVars, rateVars, policyVars, retVars, i_episode,
                   saved_rewards, saved_logprobs, tstatus, tdone, running_reward,
                   avg_return, usedGrads, schedSteps, nCalls, strayed,
                   sinceSum, sinceN, twin>>

\* "if i_episode % log_interval == 0": append running_reward / log_interval,
\* call rate, set running_reward = 0. The call of rate is taken whole: SpecRate
\* follows it step by step; here it leaves the environment in one of
\* rate_leaves and the parameters as they were.
TrainLog ==
    /\ tpc = "log"
    /\ i_episode % LogInterval = 0
    /\ avg_return' = << PyDiv(running_reward, PyInt(LogInterval)) >>
    /\ \E e \in rate_leaves : SetEnv(e)
    /\ running_reward' = PyInt(0)
    /\ sinceSum' = 0
    /\ sinceN' = 0
    /\ tpc' = "step"
    /\ UNCHANGED <<obsVars, rateVars, policyVars, retVars, i_episode,
                   saved_rewards, saved_logprobs, tstatus, tdone,
                   grads, usedGrads, schedSteps, nCalls, strayed, twin>>

\* the log block is skipped
TrainNoLog ==
    /\ tpc = "log"
    /\ i_episode % LogInterval # 0
    /\ tpc' = "step"
    /\ UNCHANGED <<envVars, obsVars, rateVars, policyVars, retVars, i_episode,
                   saved_rewards, saved_logprobs, tstatus, tdone, running_reward,
                   avg_return, grads, usedGrads, schedSteps, nCalls, strayed,
                   sinceSum, sinceN, twin>>

\* optimizer.step(); i_episode % 1 == 0 holds for every i_episode
OptimizerStep ==
    /\ tpc = "step"
    /\ i_episode % BatchSize = 0
    /\ params' = params + 1
    /\ optSteps' = optSteps + 1
    /\ usedGrads' = grads
    /\ avg_return' = <<>>
    /\ tpc' = "sched"
    /\ UNCHANGED <<envVars, obsVars, rateVars, retVars, i_episode,
                   saved_rewards, saved_logprobs, tstatus, tdone, running_reward,
                   grads, schedSteps, nCalls, strayed, sinceSum, sinceN, twin>>

\* scheduler.step()
SchedulerStep ==
    /\ tpc = "sched"
    /\ schedSteps' = schedSteps + 1
    /\ tpc' = "zero"
    /\ UNCHANGED <<envVars, obsVars, rateVars, policyVars, retVars, i_episode,
                   saved_rewards, saved_logprobs, tstatus, tdone, running_reward,
                   avg_return, grads, usedGrads, nCalls, strayed,
                   sinceSum, sinceN, twin>>

\* optimizer.zero_grad(), and on to the next i_episode
ZeroGrad ==
    /\ tpc = "zero"
    /\ grads' = zero_grad(grads)
    /\ i_episode' = i_episode + 1
    /\ tpc' = "for"
    /\ UNCHANGED <<envVars, obsVars, rateVars, policyVars, retVars,
                   saved_rewards, saved_logprobs, tstatus, tdone, running_reward,
                   avg_return, usedGrads, schedSteps, nCalls, strayed,
                   sinceSum, sinceN, twin>>

\* the for loop is exhausted: train returns
TrainExit ==
    /\ tpc = "for"
    /\ i_episode >= NumEpisodes
    /\ tpc' = "returned"
    /\ UNCHANGED <<envVars, obsVars, rateVars, policyVars, retVars, i_episode,
                   saved_rewards, saved_logprobs, tstatus, tdone, running_reward,
                   avg_return, grads, usedGrads, schedSteps, nCalls, strayed,
                   sinceSum, sinceN, twin>>

NextTrain ==
    \/ TrainCall
    \/ TrainEpisode
    \/ TrainPlay
    \/ TrainReturns
    \/ FinishEpisode
    \/ TrainLog
    \/ TrainNoLog
    \/ OptimizerStep
    \/ SchedulerStep
    \/ ZeroGrad
    \/ TrainExit

SpecTrain == Init /\ [][NextTrain]_vars

----------------------------------------------------------------------------
(* The play loops of train and of rate, each in a call of its own and up to *)
(* the end of the call's first episode.                                     *)

NextLoops ==
    \/ TrainCall
    \/ TrainEpisode
    \/ TrainPlay
    \/ TrainReturns
    \/ RateCall
    \/ RateSession /\ session = 0
    \/ RatePlay
    \/ RateTally

\* the positions at which a call has a next statement to run
LoopBusy ==
    \/ tpc = "idle" /\ pc = "idle"
    \/ tpc \in {"for", "while"}
    \/ pc = "for" /\ session = 0
    \/ pc = "while"

\* The interpreter runs the next statement of a call that has one, which is
\* weak fairness of NextLoops, written with the guards of the actions of
\* NextLoops (LoopBusy) for ENABLED <<NextLoops>>_vars and with a step that
\* changes vars for a step of NextLoops.
SpecLoops ==
    /\ Init
    /\ [][NextLoops]_vars
    /\ ([]<>(~LoopBusy) \/ []<><<LoopBusy>>_vars)

----------------------------------------------------------------------------
(* Two runs of rate with the same policy from the same state of the random  *)
(* generators. A run is the record of its environment and of rate's locals. *)
(* The environments the two runs are handed need not be equal.              *)

\* env.reset() without its effect
rate_reset_skipped(e) == e

\* "state = env.reset()" of rate, on the environment e of the run
rate_reset(e) == reset_env

\* the environments rate is called on: a fresh one, or one a finished episode left
rate_enters == {reset_env} \cup rate_leaves

\* the run at the call of rate: the tallies are 0, status and done unassigned
RateRun(e) ==
    [grid |-> e.grid, turn |-> e.turn, done |-> e.done,
     pc |-> "for", session |-> 0,
     win |-> 0, lose |-> 0, tie |-> 0, invalid |-> 0,
     status |-> "none", rdone |-> FALSE]

Tallies(run) == <<run.win, run.lose, run.tie, run.invalid>>

\* the index in pos (the empty cells of g in increasing order) of the cell c
IndexOf(g, c) == Cardinality({ d \in empty_cells(g) : d < c })

\* the head of the for loop: reset, done = False, status = valid; or return
rate_session(run) ==
    IF run.session >= NumSessions THEN [run EXCEPT !.pc = "returned"]
    ELSE LET e == rate_reset(EnvOf(run))
         IN  [run EXCEPT !.grid = e.grid, !.turn = e.turn, !.done = e.done,
                         !.rdone = FALSE, !.status = STATUS_VALID_MOVE,
                         !.pc = "while"]

\* one pass of the while loop, r what play_against_random returned or raised
rate_play(run, r) ==
    IF r.fault # "none"
       THEN [run EXCEPT !.grid = r.grid, !.turn = r.turn, !.done = r.done,
                        !.pc = "raised"]
    ELSE [run EXCEPT !.grid = r.grid, !.turn = r.turn, !.done = r.done,
                     !.status = r.status, !.rdone = r.done,
                     !.invalid = rate_invalid(@, r.status)]

\* after the while loop: the three tallies, next session
rate_after(run) ==
    LET t == rate_tally([win |-> run.win, lose |-> run.lose, tie |-> run.tie],
                        run.status)
    IN  [run EXCEPT !.win = t.win, !.lose = t.lose, !.tie = t.tie,
                    !.session = @ + 1, !.pc = "for"]

\* the run is about to sample an action and play it
Playing(run) == run.pc = "while" /\ ~run.rdone

\* the next statement of the run
rate_next(run, r) ==
    IF run.pc = "for" THEN rate_session(run)
    ELSE IF Playing(run) THEN rate_play(run, r)
    ELSE IF run.pc = "while" THEN rate_after(run)
    ELSE run

\* the actions the policy can sample in the run's next statement
SamplesOf(run) == IF Playing(run) THEN select_action_samples ELSE {NoAction}

\* what the step of the sampled action returns; the environment as it is when
\* the run's next statement plays nothing
FirstOf(run, a) ==
    IF Playing(run) THEN step(EnvOf(run), a)
    ELSE Returned(run.grid, run.turn, run.done, "none")

\* as in train, the policy samples an occupied cell at most once during a run
MayPlay(run, first) ==
    first.status = STATUS_INVALID_MOVE => run.invalid = 0

\* the cells random.choice can draw in the run's next statement, -1 for none
MovesOf(run, first) == IF Playing(run) THEN ReplyDraws(first) ELSE {-1}

\* what play_against_random does after the step: first is what the step of the
\* sampled action returned, move the cell random.choice drew
OutcomeOf(run, first, move) ==
    IF Playing(run) THEN play_against_random(first, move)
    ELSE Outcome(first, "none", "none")

\* The draws of the second run, given those of the first, when the generators
\* are in the same state in both and the policy is the same: on the same board
\* the policy samples the same action, and random.choice on lists of the same
\* length draws the same index.
SamplesWith(A, aA, B) ==
    IF Playing(A) /\ Playing(B) /\ A.grid = B.grid THEN {aA} ELSE SamplesOf(B)

MovesWith(fA, mA, B, fB) ==
    LET DB == MovesOf(B, fB)
    IN  IF fA.grid = fB.grid /\ mA \in DB THEN {mA}
        ELSE IF /\ mA # -1
                /\ DB # {-1}
                /\ Cardinality(empty_cells(fA.grid))
                      = Cardinality(empty_cells(fB.grid))
           THEN { c \in DB : IndexOf(fB.grid, c) = IndexOf(fA.grid, mA) }
        ELSE DB

\* both runs take their next statement
TwinNext ==
    \E aA \in SamplesOf(twin[1]) :
    \E fA \in {FirstOf(twin[1], aA)} :
    \E aB \in SamplesWith(twin[1], aA, twin[2]) :
    \E fB \in {FirstOf(twin[2], aB)} :
        /\ MayPlay(twin[1], fA)
        /\ MayPlay(twin[2], fB)
        /\ \E mA \in MovesOf(twin[1], fA) :
           \E mB \in MovesWith(fA, mA, twin[2], fB) :
           \E rA \in {OutcomeOf(twin[1], fA, mA)} :
           \E rB \in {OutcomeOf(twin[2], fB, mB)} :
              twin' = <<rate_next(twin[1], rA), rate_next(twin[2], rB)>>

\* both runs are called, each on an environment of its own
TwinCall ==
    /\ twin = <<>>
    /\ pc = "idle" /\ tpc = "idle"
    /\ \E eA \in rate_enters, eB \in rate_enters :
          twin' = <<RateRun(eA), RateRun(eB)>>
    /\ UNCHANGED <<envVars, obsVars, rateVars, policyVars, retVars, trainVars>>

\* both runs take their next statement, the first at the head of the for loop
TwinSession ==
    /\ twin # <<>>
    /\ twin[1].pc = "for"
    /\ twin[1].session < NumSessions
    /\ TwinNext
    /\ UNCHANGED <<envVars, obsVars, rateVars, policyVars, retVars, trainVars>>

\* both runs take their next statement, the first a pass of the while loop
TwinPlay ==
    /\ twin # <<>>
    /\ Playing(twin[1])
    /\ TwinNext
    /\ UNCHANGED <<envVars, obsVars, rateVars, policyVars, retVars, trainVars>>

\* both runs take their next statement, the first the tallies after the loop
TwinTally ==
    /\ twin # <<>>
    /\ twin[1].pc = "while"
    /\ twin[1].rdone
    /\ TwinNext
    /\ UNCHANGED <<envVars, obsVars, rateVars, policyVars, retVars, trainVars>>

\* both runs take their next statement, the first its return
TwinReturn ==
    /\ twin # <<>>
    /\ twin[1].pc = "for"
    /\ twin[1].session >= NumSessions
    /\ TwinNext
    /\ UNCHANGED <<envVars, obsVars, rateVars, policyVars, retVars, trainVars>>

NextTwin ==
    \/ TwinCall
    \/ TwinSession
    \/ TwinPlay
    \/ TwinTally
    \/ TwinReturn

SpecTwin == Init /\ [][NextTwin]_vars

----------------------------------------------------------------------------
(* compute_returns as an operation *)

InitReturns ==
    /\ InitEnv /\ InitRateVars /\ InitPolicy /\ InitTrainVars /\ InitTwin
    /\ rewards \in RewardLists
    /\ gamma \in GammaInputs
    /\ G = <<>>
    /\ rpc = "called"

ComputeReturns ==
    /\ rpc = "called"
    /\ G' = compute_returns(rewards, gamma)
    /\ rpc' = "returned"
    /\ UNCHANGED <<envVars, obsVars, rateVars, policyVars, rewards, gamma, trainVars,
                   twin>>

NextReturns == ComputeReturns

SpecReturns == InitReturns /\ [][NextReturns]_vars

----------------------------------------------------------------------------
(* Vocabulary of the properties, stated without the code's own helpers *)

\* the three rows, the three columns and the two diagonals, as sets of cells
Lines ==
    { { 3 * r + k : k \in 0..2 } : r \in 0..2 } \cup
    { { c + 3 * k : k \in 0..2 } : c \in 0..2 } \cup
    { {0, 4, 8}, {2, 4, 6} }

\* player p holds every cell of some line of g
HoldsLine(g, p) == \E L \in Lines : \A c \in L : g[c] = p

\* some line of g has three equal non-empty cells
HasLine(g) == HoldsLine(g, 1) \/ HoldsLine(g, 2)

\* the number of non-empty cells of g
Marks(g) == Cardinality({ c \in Cells : g[c] # 0 })

\* the reward list of the doctests, [0, 0, 0, 1]
ExampleRewards == << PyInt(0), PyInt(0), PyInt(0), PyInt(1) >>

\* the decimal 0.729 as a double: 0x1.753f7ced91687p-1
F0_729 == Hex(FALSE, <<1, 7, 5, 3, 15, 7, 12, 14, 13, 9, 1, 6, 8, 7>>, -53)

\* the step just taken is a call step(arg') that passed the assertion
StepCalled == op' = "step" /\ arg'.type = "int" /\ arg'.val \in Cells

\* the step just taken left the environment as it was
EnvUnchanged == grid' = grid /\ turn' = turn /\ done' = done

\* the step just taken is step(arg') on an unfinished game and an empty cell
StepAccepted == StepCalled /\ ~done /\ grid[arg'.val] = 0

----------------------------------------------------------------------------
(* C1: once done is true, step(a) returns DONE for every cell a, occupied  *)
(* or not, and leaves grid, turn and done as they were; the state it       *)
(* leaves is again a done state, so every repetition does the same.        *)
C1_StepOnDone ==
    [][ (StepCalled /\ done)
            => (status' = STATUS_DONE /\ fault' = "none" /\ EnvUnchanged) ]_vars

\* step(a) has returned DONE on a finished game for an occupied cell a
C1_Witness ==
    op = "step" /\ status = STATUS_DONE /\ done /\ grid[arg.val] # 0

(* C2: while done is false, step(a) on an occupied cell returns            *)
(* INVALID_MOVE and leaves grid, turn and done as they were.               *)
C2_StepOnOccupied ==
    [][ (StepCalled /\ ~done /\ grid[arg'.val] # 0)
            => (status' = STATUS_INVALID_MOVE /\ fault' = "none" /\ EnvUnchanged) ]_vars

\* step(a) has returned INVALID_MOVE
C2_Witness ==
    op = "step" /\ status = STATUS_INVALID_MOVE /\ ~done /\ grid[arg.val] # 0

(* C3: an accepted step(a) marks exactly cell a with the player whose turn *)
(* it was, flips the turn, and returns WIN with done true exactly when the *)
(* marked board has a line of three equal non-empty cells; check_win is    *)
(* true of exactly the boards with such a line.                            *)
C3_AcceptedMove ==
    [][ StepAccepted
            => /\ grid' = [grid EXCEPT ![arg'.val] = turn]
               /\ turn' = 3 - turn
               /\ turn' \in {1, 2}
               /\ fault' = "none"
               /\ (status' = STATUS_WIN) <=> HasLine(grid')
               /\ (status' = STATUS_WIN) => done'
               /\ check_win(grid') <=> HasLine(grid')
               /\ check_win(grid) <=> HasLine(grid) ]_vars

\* step(a) has returned WIN for the player who marked cell a
C3_Witness ==
    /\ op = "step" /\ status = STATUS_WIN /\ done
    /\ grid[arg.val] = 3 - turn
    /\ HoldsLine(grid, 3 - turn)

(* C4: an accepted step that fills the board without a line returns TIE    *)
(* with done true; one that completes a line returns WIN even when it is   *)
(* the ninth mark; one that does neither returns VALID_MOVE, done false.   *)
C4_TieAfterWin ==
    [][ StepAccepted
            => /\ (Marks(grid') = 9 /\ ~HasLine(grid'))
                    => (status' = STATUS_TIE /\ done')
               /\ HasLine(grid') => (status' = STATUS_WIN /\ done')
               /\ (Marks(grid') < 9 /\ ~HasLine(grid'))
                    => (status' = STATUS_VALID_MOVE /\ ~done') ]_vars

\* a ninth mark that completed a line was reported as WIN
C4_Witness ==
    op = "step" /\ status = STATUS_WIN /\ Marks(grid) = 9 /\ HasLine(grid)

(* C5: in an episode (reset and play_against_random only) the reported     *)
(* status is LOSE exactly when the opponent's reply completes a line of    *)
(* player 2, TIE if the reply fills the board without a line, and WIN only *)
(* when the agent's own mark completes a line of player 1; a reply always  *)
(* lands on an empty cell, random.choice never sees an empty list and the  *)
(* ValueError is never raised. (A reply is always an even-numbered mark,   *)
(* so every TIE of an episode comes from the agent's own ninth mark.)      *)
C5_CompositeStatus ==
    [][ op' = "play_against_random"
            => /\ fault' \notin {"ValueError", "IndexError"}
               /\ (status' = STATUS_LOSE)
                    <=> /\ s2' # "none"
                        /\ \E L \in Lines : oppMove' \in L /\ \A c \in L : grid'[c] = 2
               /\ (s2' # "none" /\ Marks(grid') = 9 /\ ~HasLine(grid'))
                    => status' = STATUS_TIE
               /\ (status' = STATUS_TIE) => (s2' = "none" /\ Marks(grid') = 9)
               /\ (status' = STATUS_WIN)
                    => /\ s2' = "none"
                       /\ HoldsLine(grid', 1) /\ ~HoldsLine(grid, 1)
                       /\ Marks(grid') = Marks(grid) + 1
               /\ (s2' # "none")
                    => /\ oppMove' \in Cells
                       /\ grid[oppMove'] = 0 /\ grid'[oppMove'] = 2
                       /\ s2' \notin {STATUS_INVALID_MOVE, STATUS_DONE}
                       /\ Marks(grid') = Marks(grid) + 2
               /\ (s2' = "none") <=> (oppMove' = -1) ]_vars

\* the opponent's reply has completed a line and the call reported LOSE
C5_Witness ==
    /\ op = "play_against_random" /\ status = STATUS_LOSE /\ s2 = STATUS_WIN
    /\ oppMove \in Cells /\ HoldsLine(grid, 2) /\ done

(* C6: in an episode (reset and play_against_random only), when the move   *)
(* given to play_against_random is rejected as INVALID_MOVE the opponent   *)
(* does not reply: the call returns INVALID_MOVE, done stays false, grid   *)
(* and turn are unchanged and the turn is still player 1's.                *)
C6_InvalidNoReply ==
    [][ (op' = "play_against_random" /\ s1' = STATUS_INVALID_MOVE)
            => /\ s2' = "none" /\ oppMove' = -1
               /\ status' = STATUS_INVALID_MOVE /\ fault' = "none"
               /\ EnvUnchanged /\ ~done' /\ turn' = 1 ]_vars

\* play_against_random has rejected player 1's move on a board in play
C6_Witness ==
    /\ op = "play_against_random" /\ status = STATUS_INVALID_MOVE
    /\ s1 = STATUS_INVALID_MOVE /\ s2 = "none" /\ turn = 1 /\ ~done /\ Marks(grid) >= 2

(* C7: from reset, step with 0, 1, 3, 4, 6 in that order returns           *)
(* VALID_MOVE four times and then WIN with done true; cells 0, 3, 6 hold   *)
(* player 1's mark and cells 1, 4 player 2's.                              *)
C7_Scenario ==
    /\ scriptPos \in 1..4 => (op = "step" /\ status = STATUS_VALID_MOVE /\ ~done)
    /\ scriptPos = 5
         => /\ op = "step" /\ status = STATUS_WIN /\ done
            /\ grid[0] = 1 /\ grid[3] = 1 /\ grid[6] = 1
            /\ grid[1] = 2 /\ grid[4] = 2
            /\ Marks(grid) = 5

\* the five moves of the scenario have been applied
C7_Witness == scriptPos = 5 /\ arg = IntAction(6)

(* C8 as stated: compute_returns([0,0,0,1], 0.9) == [0.729, 0.81, 0.9, 1.0] *)
C8_ExactDecimals ==
    (rpc = "returned" /\ rewards = ExampleRewards /\ gamma = PyFloat(F0_9))
        => /\ Len(G) = 4
           /\ PyEq(G[1], PyFloat(F0_729))
           /\ PyEq(G[2], PyFloat(F0_81))
           /\ PyEq(G[3], PyFloat(F0_9))
           /\ PyEq(G[4], PyFloat(F1_0))

(* C8, amended: compute_returns returns a list G as long as rewards (empty *)
(* for an empty list) with G[T-1] == rewards[T-1] and, in double           *)
(* arithmetic, G[t] = rewards[t] + gamma * G[t+1] below that;              *)
(* compute_returns([0,0,0,1], 1.0) == [1,1,1,1], and                       *)
(* compute_returns([0,0,0,1], 0.9) is [0.7290000000000001, 0.81, 0.9, 1.0],*)
(* whose first entry is the double next above 0.729.                       *)
C8_Returns ==
    rpc = "returned"
        => /\ Len(G) = Len(rewards)
           /\ rewards = <<>> => G = <<>>
           /\ \A t \in 1..Len(rewards) :
                /\ G[t].t = "float"
                /\ IF t = Len(rewards) THEN PyEq(G[t], rewards[t])
                   ELSE G[t].flt = FAdd(AsFloat(rewards[t]),
                                        FMul(gamma.flt, G[t + 1].flt))
           /\ (rewards = ExampleRewards /\ gamma = PyFloat(F1_0))
                => \A t \in 1..4 : PyEq(G[t], PyInt(1))
           /\ (rewards = ExampleRewards /\ gamma = PyFloat(F0_9))
                => /\ G = << PyFloat(F0_7290000000000001), PyFloat(F0_81),
                             PyFloat(F0_9), PyFloat(F1_0) >>
                   /\ G[1].flt = RoundToFloat(FALSE, NatAdd(F0_729.man, <<1>>),
                                               F0_729.exp)
                   /\ BitLen(F0_729.man) = MantissaBits

\* compute_returns([0,0,0,1], 0.9) has returned
C8_Witness ==
    /\ rpc = "returned" /\ rewards = ExampleRewards /\ gamma = PyFloat(F0_9)
    /\ Len(G) = 4 /\ ~PyEq(G[1], PyFloat(F0_729))

(* C9: a call of rate runs exactly NumSessions episodes (100 in the        *)
(* source), each begun by reset on an empty board; its invalid tally is    *)
(* the number of play_against_random calls that returned INVALID_MOVE; win,*)
(* lose and tie count the episodes whose last call returned WIN, LOSE and  *)
(* TIE; no step of rate takes an optimizer step or changes the parameters. *)
C9_RateTallies ==
    /\ [](/\ invalid = nInvReturned
          /\ pc \in {"for", "returned"}
                => /\ win = nFinal[STATUS_WIN]
                   /\ lose = nFinal[STATUS_LOSE]
                   /\ tie = nFinal[STATUS_TIE]
                   /\ nReset = session
          /\ pc = "while" => nReset = session + 1
          /\ pc = "returned" => (session = NumSessions /\ nReset = NumSessions))
    /\ [][ /\ (pc = "for" /\ pc' = "while")
                => (grid' = EmptyGrid /\ turn' = 1 /\ ~done')
           /\ params' = params
           /\ optSteps' = optSteps ]_vars

\* rate has returned after an episode with an invalid move and a lost episode
C9_Witness ==
    pc = "returned" /\ invalid >= 1 /\ lose >= 1 /\ win >= 1 /\ session = NumSessions

(* C10: step with an action that is not an int in 0..8 raises the          *)
(* assertion error, returns no status and changes nothing.                 *)
C10_BadAction ==
    [][ (op' = "step" /\ ~(arg'.type = "int" /\ arg'.val \in 0..8))
            => /\ fault' = "AssertionError"
               /\ status' = "none"
               /\ EnvUnchanged ]_vars

\* step has raised on a float that holds a cell number
C10_Witness ==
    op = "step" /\ fault = "AssertionError" /\ arg.type = "float" /\ arg.val \in Cells

\* the number of cells of g that player p holds
Count(g, p) == Cardinality({ c \in Cells : g[c] = p })

\* 1 for a status that step returns after marking a cell, else 0
Marked(st) == IF st \in {STATUS_VALID_MOVE, STATUS_WIN, STATUS_TIE} THEN 1 ELSE 0

\* the cells the operation just taken has marked: its own step's and, in
\* play_against_random, the reply's
MarkedByCall ==
    IF op' = "play_against_random" THEN Marked(s1') + Marked(s2')
    ELSE Marked(status')

----------------------------------------------------------------------------
(* C13: between two resets, over any calls of step, random_step and        *)
(* play_against_random, a non-empty cell never changes value; the number   *)
(* of non-empty cells grows by one per accepted move and by none on DONE   *)
(* or INVALID_MOVE; reset empties all 9 cells, gives the turn to player 1  *)
(* and sets done to false.                                                 *)
C13_CellsKept ==
    [][ /\ op' # "reset" =>
            /\ \A c \in Cells : grid[c] # 0 => grid'[c] = grid[c]
            /\ Marks(grid') = Marks(grid) + MarkedByCall
            /\ status' \in {STATUS_DONE, STATUS_INVALID_MOVE} /\ s2' = "none"
                   => grid' = grid
        /\ op' = "reset" =>
            /\ \A c \in Cells : grid'[c] = 0
            /\ turn' = 1
            /\ done' = FALSE ]_vars

\* both calls of a play_against_random marked a cell on a board with marks
C13_Witness ==
    /\ op = "play_against_random"
    /\ s1 = STATUS_VALID_MOVE /\ s2 = STATUS_VALID_MOVE
    /\ Marks(grid) = 6

(* C14: in every state reachable from reset by step, random_step and       *)
(* play_against_random, done is true exactly when the board holds a line   *)
(* of three equal marks or has no empty cell; once true, done stays true   *)
(* until the next reset.                                                   *)
C14_DoneIffOver ==
    /\ [](done <=> (HasLine(grid) \/ Marks(grid) = 9))
    /\ [][done /\ op' # "reset" => done']_vars

\* a full board without a line, after a call made on the finished game
C14_Witness ==
    /\ done /\ Marks(grid) = 9 /\ ~HasLine(grid)
    /\ status = STATUS_DONE

(* C16: in every state reachable from reset by step, random_step and       *)
(* play_against_random, player 1 holds as many cells as player 2 or one    *)
(* more, the turn is player 1's exactly when the two hold equally many,    *)
(* and a play_against_random that returned with done false left the turn   *)
(* with player 1.                                                          *)
C16_TurnParity ==
    /\ Count(grid, 1) - Count(grid, 2) \in {0, 1}
    /\ turn = 1 <=> Count(grid, 1) = Count(grid, 2)
    /\ op = "play_against_random" /\ fault = "none" /\ ~done => turn = 1

\* play_against_random called on player 2's turn with an occupied cell: the
\* reply was made for player 2 and the game goes on
C16_Witness ==
    /\ op = "play_against_random" /\ fault = "none" /\ ~done
    /\ s1 = STATUS_INVALID_MOVE /\ s2 = STATUS_VALID_MOVE
    /\ Marks(grid) = 4

\* the statuses that end an episode of play_against_random calls
EndStatuses == {STATUS_WIN, STATUS_LOSE, STATUS_TIE}

(* C17: every episode run by rate ends with a last status that is WIN,     *)
(* LOSE or TIE, never DONE, VALID_MOVE or INVALID_MOVE, so the tallies of  *)
(* a returned call satisfy win + lose + tie = the number of episodes       *)
(* (range(100) in the source, NumSessions here).                           *)
C17_FinalStatus ==
    /\ pc = "while" /\ rdone => rstatus \in EndStatuses /\ done
    /\ pc = "while" /\ ~rdone => rstatus \in {STATUS_VALID_MOVE, STATUS_INVALID_MOVE}
    /\ \A st \in Statuses \ EndStatuses : nFinal[st] = 0
    /\ pc \in {"for", "returned"} => win + lose + tie = session
    /\ pc = "returned" => win + lose + tie = NumSessions

\* a returned call that saw a won and a lost episode
C17_Witness == pc = "returned" /\ win >= 1 /\ lose >= 1

----------------------------------------------------------------------------
\* the order of the steps of train: from each position, the positions that
\* one step can lead to
TrainOrder ==
    { <<"idle", "for">>, <<"for", "while">>, <<"while", "finish">>,
      <<"finish", "log">>, <<"log", "step">>, <<"step", "sched">>,
      <<"sched", "zero">>, <<"zero", "for">>, <<"for", "returned">> }

(* C11: in train every episode runs in the order reset, play loop until    *)
(* done, return and backward pass (finish_episode), one optimizer step,    *)
(* one scheduler step, gradient clear; each episode has exactly one        *)
(* optimizer step and one scheduler step; the accumulated gradient is zero *)
(* when an episode's backward pass starts, so every optimizer step uses    *)
(* the gradient of exactly one episode.                                    *)
C11_EpisodeOrder ==
    /\ [][tpc' # tpc => <<tpc, tpc'>> \in TrainOrder]_vars
    /\ [][tpc = "for" /\ tpc' = "while" =>
             grid' = EmptyGrid /\ turn' = 1 /\ ~done' /\ ~tdone']_vars
    /\ [](tpc = "finish" => tdone /\ done /\ grads = 0)
    /\ [](tpc \in {"for", "while"} => grads = 0)
    /\ [](tpc \in {"log", "step"} => grads = 1)
    /\ [](tpc \in {"sched", "zero"} => usedGrads = 1)
    /\ [](tpc \in {"for", "while", "finish", "log", "step"} =>
             optSteps = i_episode /\ schedSteps = i_episode)
    /\ [](tpc = "sched" => optSteps = i_episode + 1 /\ schedSteps = i_episode)
    /\ [](tpc = "zero" => optSteps = i_episode + 1 /\ schedSteps = i_episode + 1)
    /\ [](tpc = "returned" => optSteps = NumEpisodes /\ schedSteps = NumEpisodes)

\* the backward pass of the second episode is about to start
C11_Witness ==
    /\ tpc = "finish" /\ i_episode = 1
    /\ grads = 0 /\ optSteps = 1 /\ schedSteps = 1 /\ usedGrads = 1

\* the rewards that end an episode, and those that do not
EndRewards == { get_reward(st) : st \in EndStatuses }
MoveRewards == { get_reward(STATUS_VALID_MOVE), get_reward(STATUS_INVALID_MOVE) }

(* C18: in train the trajectory handed to finish_episode has one           *)
(* (log-probability, reward) pair per play_against_random call of the      *)
(* episode and starts empty with the episode; get_reward is never called   *)
(* with DONE; the last reward is that of WIN, TIE or LOSE and every        *)
(* earlier one that of VALID_MOVE or INVALID_MOVE; the trajectory has at   *)
(* least 3 entries.                                                        *)
C18_Trajectory ==
    /\ tpc # "raised" /\ tstatus # STATUS_DONE
    /\ tpc \in {"while", "finish"} =>
          /\ Len(saved_rewards) = nCalls
          /\ Len(saved_logprobs) = nCalls
          /\ \A i \in 1..(nCalls - 1) : saved_rewards[i] \in MoveRewards
          /\ nCalls > 0 => saved_rewards[nCalls] = get_reward(tstatus)
          /\ nCalls > 0 => (tdone <=> saved_rewards[nCalls] \in EndRewards)
          /\ nCalls > 0 /\ ~tdone => saved_rewards[nCalls] \in MoveRewards
    /\ tpc = "finish" =>
          /\ nCalls >= 3
          /\ tdone
          /\ saved_rewards[nCalls] \in EndRewards

\* a lost episode of four calls, the second of them invalid, is handed over
C18_Witness ==
    /\ tpc = "finish"
    /\ saved_rewards = << get_reward(STATUS_VALID_MOVE), get_reward(STATUS_INVALID_MOVE),
                          get_reward(STATUS_VALID_MOVE), get_reward(STATUS_LOSE) >>
    /\ Len(saved_logprobs) = 4

\* the mean of the returns G_0 of the episodes finished since the last record:
\* their sum, which is a whole number, divided by their number
MeanSince == PyDiv(PyInt(sinceSum), PyInt(sinceN))

(* C19: at every logging episode of train (i_episode a multiple of         *)
(* log_interval, episode 0 included) the recorded average return equals    *)
(* the mean, over the episodes played since the previous record, of the    *)
(* episodes' returns G_0; the accumulator is 0 after each record.          *)
C19_AverageReturn ==
    [][avg_return' # <<>> =>
          /\ PyEq(avg_return'[1], MeanSince)
          /\ PyEq(running_reward', PyInt(0))]_vars

\* the record of episode 0 after an episode won in three moves: the return
\* 1020.0 of that one episode, divided by LogInterval
C19_Witness ==
    /\ i_episode = 0
    /\ saved_rewards = << get_reward(STATUS_VALID_MOVE), get_reward(STATUS_VALID_MOVE),
                          get_reward(STATUS_WIN) >>
    /\ avg_return = << PyDiv(PyInt(1020), PyInt(LogInterval)) >>

\* the calls of the current episode of train that did not return INVALID_MOVE
TrainPlayed ==
    Cardinality({ i \in 1..Len(saved_rewards) :
                    saved_rewards[i] # get_reward(STATUS_INVALID_MOVE) })

(* C15: the play loop of train and of rate ends when done becomes true:    *)
(* an episode has at most 5 agent steps whose status is not INVALID_MOVE,  *)
(* it ends at the first step whose status is WIN, LOSE or TIE, and, when   *)
(* the agent does not choose occupied cells forever, it reaches done.      *)
C15_LoopEnds ==
    /\ [](tpc = "while" => TrainPlayed <= 5)
    /\ [](pc = "while" => nPlayed <= 5)
    /\ [](tpc = "while" /\ nCalls > 0 => (tdone <=> tstatus \in EndStatuses))
    /\ [](pc = "while" => (rdone <=> rstatus \in EndStatuses))
    /\ [](tpc = "while" => tdone = done)
    /\ [](pc = "while" => rdone = done)
    /\ [][tpc = "while" /\ tdone => tpc' = "finish"]_vars
    /\ [][pc = "while" /\ rdone => pc' = "for"]_vars
    /\ [](tpc = "while" /\ ~tdone => empty_cells(grid) # {})
    /\ [](pc = "while" /\ ~rdone => empty_cells(grid) # {})
    /\ (tpc = "while" ~> (tdone /\ done))
    /\ (pc = "while" ~> (rdone /\ done))

\* an episode of train ended after five steps and an invalid one, and one of
\* rate after five steps
C15_Witness ==
    \/ tpc = "finish" /\ TrainPlayed = 5 /\ Len(saved_rewards) = 6 /\ tdone
    \/ pc = "for" /\ nPlayed = 5 /\ rdone /\ session = 1

(* C12: two runs of rate from the same state of the random generators with *)
(* the same policy return the same (win, lose, tie, invalid): at every     *)
(* statement the two runs stand at the same place with the same tallies,   *)
(* and from the first reset on with the same board.                        *)
C12_SameTallies ==
    twin # <<>> =>
        /\ twin[1].pc = twin[2].pc
        /\ twin[1].session = twin[2].session
        /\ Tallies(twin[1]) = Tallies(twin[2])
        /\ twin[1].pc = "returned" => twin[1] = twin[2]

\* both runs have returned, with an episode won, one lost and an invalid move
C12_Witness ==
    /\ twin # <<>>
    /\ twin[1].pc = "returned" /\ twin[2].pc = "returned"
    /\ twin[2].win = 1 /\ twin[2].lose = 1 /\ twin[2].invalid >= 1

====
